---- MODULE Spec2Model ----
(***************************************************************************)
(* A model of `ecc ontology init`: the rows of the TSV file are read into  *)
(* nodes, the nodes are indexed by name and linked into a petgraph DiGraph *)
(* (crates/ecc-cli/src/ontology/init.rs), and the graph is walked          *)
(* breadth-first from the root, resolving and writing one file per visited *)
(* node (crates/ecc-cli/src/ontology/init/directory.rs).  The names of the *)
(* nodes are parsed by Name::from_str (crates/ontology/src/node/name.rs).  *)
(*                                                                         *)
(* Strings are sequences of one-character strings.  Node indexes are the   *)
(* positions 1..n of the node arena (petgraph counts from 0).  The `code`  *)
(* column is carried through unread by every step and is left out.         *)
(***************************************************************************)
EXTENDS Integers, Sequences, FiniteSets, TLC

(* Bounds of the model. *)
MaxRows == 3
MaxPieces == 2
MaxTokens == 3
GraphNodes == 3
GraphEdges == 3
ChainLen == 2
MaxNodes == 4
MaxDigits == 2
MaxNumberDigits == 7

(* ---------------------------------------------------------------------- *)
(* Strings                                                                 *)
(* ---------------------------------------------------------------------- *)

Empty == <<>>

(* The raw names a row may carry: each is accepted by Name::from_str, and  *)
(* the empty string is what an empty TSV field deserialises to.            *)
Names == { Empty, <<"A">>, <<"B">>, <<"A", ",">> }

(* The names the nodes of a directly supplied graph carry. *)
WeightNames == { <<"A">>, <<"B">> }

YmlSuffix == <<".", "y", "m", "l">>

CHARS_TO_REMOVE == { ",", ";" }

(* A character is a one-character string; the two characters outside      *)
(* ASCII that the model uses are written by their code points: U+00E8 is   *)
(* the letter e with a grave accent, U+00A0 the no-break space.            *)
NonAsciiChars == { "U+00E8", "U+00A0" }

(* char::is_whitespace, on the characters of the model. *)
WhitespaceChars == { " ", "\t", "U+00A0" }

UpperLetters ==
    << "A", "B", "C", "D", "E", "F", "G", "H", "I", "J", "K", "L", "M",
       "N", "O", "P", "Q", "R", "S", "T", "U", "V", "W", "X", "Y", "Z" >>

LowerLetters ==
    << "a", "b", "c", "d", "e", "f", "g", "h", "i", "j", "k", "l", "m",
       "n", "o", "p", "q", "r", "s", "t", "u", "v", "w", "x", "y", "z" >>

LetterIndex(letters, c) ==
    IF \E k \in 1..26 : letters[k] = c
    THEN CHOOSE k \in 1..26 : letters[k] = c
    ELSE 0

ToAsciiLowercase(c) ==
    IF LetterIndex(UpperLetters, c) = 0 THEN c
    ELSE LowerLetters[LetterIndex(UpperLetters, c)]

ToAsciiUppercase(c) ==
    IF LetterIndex(LowerLetters, c) = 0 THEN c
    ELSE UpperLetters[LetterIndex(LowerLetters, c)]

(* A variant that removes the commas only. *)
CleanCommasOnly(name) == SelectSeq(name, LAMBDA c : c # ",")

clean_path_name(name) == SelectSeq(name, LAMBDA c : c \notin CHARS_TO_REMOVE)

(* convert_case, from Case::Title: the only word boundary is the space     *)
(* (the digit boundaries are switched off); empty words are dropped.       *)
RECURSIVE SplitWords(_, _)
SplitWords(s, word) ==
    IF s = <<>>
    THEN IF word = <<>> THEN <<>> ELSE << word >>
    ELSE IF Head(s) = " "
         THEN (IF word = <<>> THEN <<>> ELSE << word >>) \o SplitWords(Tail(s), <<>>)
         ELSE SplitWords(Tail(s), Append(word, Head(s)))

(* to_case(Case::Kebab): every word lowercased, the words joined by '-'. *)
RECURSIVE JoinKebab(_)
JoinKebab(words) ==
    IF words = <<>> THEN <<>>
    ELSE LET w == [k \in 1..Len(Head(words)) |-> ToAsciiLowercase(Head(words)[k])]
         IN  IF Len(words) = 1 THEN w ELSE w \o <<"-">> \o JoinKebab(Tail(words))

RenderSegment(element) == JoinKebab(SplitWords(clean_path_name(element), <<>>))

(* A path is the sequence of its components below the output directory;   *)
(* a path that starts with RootDir is absolute and lies wherever its       *)
(* components say, whatever the output directory is.                       *)
RootDir == << "/" >>
ParentComponent == << ".", "." >>

(* Path::components: the part is cut at every '/'; an empty component and  *)
(* a '.' component are dropped, a '..' component is kept.                  *)
RECURSIVE Components(_, _)
Components(s, comp) ==
    LET kept == IF comp = <<>> \/ comp = << "." >> THEN <<>> ELSE << comp >>
    IN  IF s = <<>> THEN kept
        ELSE IF Head(s) = "/"
             THEN kept \o Components(Tail(s), <<>>)
             ELSE Components(Tail(s), Append(comp, Head(s)))

(* PathBuf::push: an absolute part replaces the path, any other part is    *)
(* added below it; an empty part adds no component.                        *)
PathPush(acc, part) ==
    IF part = <<>> THEN acc
    ELSE IF Head(part) = "/"
         THEN << RootDir >> \o Components(part, <<>>)
         ELSE acc \o Components(part, <<>>)

RECURSIVE FoldPath(_, _)
FoldPath(acc, elements) ==
    IF elements = <<>> THEN acc
    ELSE FoldPath(PathPush(acc, RenderSegment(Head(elements))), Tail(elements))

(* The file of a node, relative to the output directory. *)
FilePath(elements, name) == FoldPath(<<>>, Append(elements, name \o YmlSuffix))

(* Path::parent: the path without its last component. *)
ParentDir(file) == SubSeq(file, 1, Len(file) - 1)

(* create_dir_all: the directory and every directory above it. *)
DirsUpTo(dir) ==
    { SubSeq(dir, 1, k) : k \in (IF dir # <<>> /\ Head(dir) = RootDir THEN 1 ELSE 0)..Len(dir) }

(* ---------------------------------------------------------------------- *)
(* Name::from_str (name.rs)                                                *)
(* ---------------------------------------------------------------------- *)

(* A variant of the list without `like`. *)
LowercaseWordsWithoutLike ==
    { << "a", "n", "d" >>, << "t", "h", "e" >>,
      << "o", "f" >>, << "o", "r" >>, << "w", "i", "t", "h" >> }

LOWERCASE_WORDS ==
    { << "a", "n", "d" >>, << "l", "i", "k", "e" >>, << "t", "h", "e" >>,
      << "o", "f" >>, << "o", "r" >>, << "w", "i", "t", "h" >> }

(* A variant of the table without the iAMP21 entry. *)
ReplacementsWithoutIamp21 ==
    { << << "h", "o", "d", "g", "k", "i", "n" >>, << "H", "o", "d", "g", "k", "i", "n" >> >>,
      << << "b", "a", "r", "r" >>, << "B", "a", "r", "r" >> >>,
      << << "d", "o", "r", "f", "m", "a", "n" >>, << "D", "o", "r", "f", "m", "a", "n" >> >>,
      << << "l", "e", "y", "d", "i", "g" >>, << "L", "e", "y", "d", "i", "g" >> >> }

(* TITLE_CASE_REPLACEMENTS, as <<key, value>> pairs.  The table is a       *)
(* HashMap: the order in which its entries are visited is not fixed.       *)
TITLE_CASE_REPLACEMENTS ==
    { << << "h", "o", "d", "g", "k", "i", "n" >>, << "H", "o", "d", "g", "k", "i", "n" >> >>,
      << << "b", "a", "r", "r" >>, << "B", "a", "r", "r" >> >>,
      << << "d", "o", "r", "f", "m", "a", "n" >>, << "D", "o", "r", "f", "m", "a", "n" >> >>,
      << << "l", "e", "y", "d", "i", "g" >>, << "L", "e", "y", "d", "i", "g" >> >>,
      << << "I", "a", "m", "p", "2", "1" >>, << "i", "A", "M", "P", "2", "1" >> >> }

(* A variant that looks at the first character only. *)
IsAsciiFirstChar(s) == s = <<>> \/ Head(s) \notin NonAsciiChars

(* str::is_ascii *)
IsAscii(s) == \A k \in 1..Len(s) : s[k] \notin NonAsciiChars

to_lowercase(s) == [k \in 1..Len(s) |-> ToAsciiLowercase(s[k])]

to_uppercase(s) == [k \in 1..Len(s) |-> ToAsciiUppercase(s[k])]

StartsWith(s, prefix) ==
    /\ Len(prefix) <= Len(s)
    /\ SubSeq(s, 1, Len(prefix)) = prefix

(* str::replace: every non-overlapping match of `from`, left to right. *)
RECURSIVE Replace(_, _, _)
Replace(s, from, to) ==
    IF s = <<>> THEN <<>>
    ELSE IF StartsWith(s, from)
         THEN to \o Replace(SubSeq(s, Len(from) + 1, Len(s)), from, to)
         ELSE << Head(s) >> \o Replace(Tail(s), from, to)

(* The orders in which a HashMap of the table's entries can be iterated. *)
RECURSIVE Orderings(_)
Orderings(S) ==
    IF S = {} THEN { <<>> }
    ELSE UNION { { << x >> \o q : q \in Orderings(S \ { x }) } : x \in S }

ReplacementOrders == Orderings(TITLE_CASE_REPLACEMENTS)

(* for (k, v) in TITLE_CASE_REPLACEMENTS.iter() { result = result.replace(k, v) } *)
RECURSIVE ApplyReplacements(_, _)
ApplyReplacements(s, order) ==
    IF order = <<>> THEN s
    ELSE ApplyReplacements(Replace(s, Head(order)[1], Head(order)[2]), Tail(order))

(* A variant that uppercases the first character only. *)
TitleCharsFirstOnly(s) ==
    [k \in 1..Len(s) |->
        IF k = 1 THEN ToAsciiUppercase(s[k]) ELSE ToAsciiLowercase(s[k])]

(* The loop of to_title_case: the first character and every character     *)
(* directly after a '/' is uppercased, every other one lowercased.         *)
TitleChars(s) ==
    [k \in 1..Len(s) |->
        IF k = 1 \/ s[k - 1] = "/"
        THEN ToAsciiUppercase(s[k])
        ELSE ToAsciiLowercase(s[k])]

to_title_case(s, order) == ApplyReplacements(TitleChars(s), order)

InLowercaseList ==
    "the word is in the lowercase list"

NotLowerNorUpper ==
    "the word is neither in the lowercase list nor is fully uppercase"

CaseOk(case, word) == [ok |-> TRUE, case |-> case, word |-> word]

(* A variant that reports the word as expected and the expected form as    *)
(* found.                                                                  *)
IncorrectCaseErrorSwapped(found, expected, reason) ==
    [ok |-> FALSE, found |-> expected, expected |-> found, reason |-> reason]

IncorrectCaseError(found, expected, reason) ==
    [ok |-> FALSE, found |-> found, expected |-> expected, reason |-> reason]

IsLowercaseWord(lowercased) == lowercased \in LOWERCASE_WORDS

(* A variant that takes a word for uppercase only if it is all letters. *)
IsUppercaseLettersOnly(input) ==
    \A k \in 1..Len(input) : LetterIndex(UpperLetters, input[k]) # 0

(* let uppercased = input.to_uppercase(); uppercased == input *)
IsUppercase(input) == to_uppercase(input) = input

validate_word_case(input, order) ==
    LET lowercased == to_lowercase(input)
    IN  IF IsLowercaseWord(lowercased)
        THEN IF lowercased = input
             THEN CaseOk("Lower", input)
             ELSE IncorrectCaseError(input, lowercased, InLowercaseList)
        ELSE IF IsUppercase(input)
        THEN CaseOk("Upper", input)
        ELSE LET title_cased == to_title_case(input, order)
             IN  IF title_cased = input
                 THEN CaseOk("Title", input)
                 ELSE IncorrectCaseError(input, title_cased, NotLowerNorUpper)

(* filter(|c| *c != ',' && *c != ';') *)
StripPunctuation(input) == SelectSeq(input, LAMBDA c : c # "," /\ c # ";")

(* str::split_whitespace: the maximal runs of characters that are not      *)
(* whitespace, in order.                                                   *)
RECURSIVE SplitWhitespace(_, _)
SplitWhitespace(s, word) ==
    IF s = <<>>
    THEN IF word = <<>> THEN <<>> ELSE << word >>
    ELSE IF Head(s) \in WhitespaceChars
         THEN (IF word = <<>> THEN <<>> ELSE << word >>) \o SplitWhitespace(Tail(s), <<>>)
         ELSE SplitWhitespace(Tail(s), Append(word, Head(s)))

Tokens(input) == SplitWhitespace(StripPunctuation(input), <<>>)

NotParsed == [kind |-> "None"]

(* Builder::default(): no field is set.  None is <<>>, Some(x) is <<x>>. *)
DefaultBuilder == [name |-> <<>>, parent |-> <<>>, code |-> <<>>]

NameOk(inner, words) ==
    [kind |-> "Ok", inner |-> inner, words |-> words]

NonAsciiWords(words) ==
    [kind |-> "NonAsciiWords", words |-> words]

IncorrectlyCasedWords(findings) ==
    [kind |-> "IncorrectlyCasedWords", words |-> findings]

(* A variant that reports only the first offending token. *)
from_str_first_only(input, order) ==
    LET tokens == Tokens(input)
        invalid == SelectSeq(tokens, LAMBDA t : ~IsAscii(t))
        results == [k \in 1..Len(tokens) |-> validate_word_case(tokens[k], order)]
        errors == SelectSeq(results, LAMBDA r : ~r.ok)
    IN  IF invalid # <<>>
        THEN NonAsciiWords(<< Head(invalid) >>)
        ELSE IF errors # <<>>
        THEN IncorrectlyCasedWords(<< Head(errors) >>)
        ELSE NameOk(input, [k \in 1..Len(results) |->
                              [case |-> results[k].case, word |-> results[k].word]])

(* A variant that checks the case of the ASCII tokens before it looks for  *)
(* tokens that are not ASCII.                                              *)
from_str_case_first(input, order) ==
    LET tokens == Tokens(input)
        invalid == SelectSeq(tokens, LAMBDA t : ~IsAscii(t))
        ascii_words == SelectSeq(tokens, IsAscii)
        results == [k \in 1..Len(ascii_words) |-> validate_word_case(ascii_words[k], order)]
        errors == SelectSeq(results, LAMBDA r : ~r.ok)
    IN  IF errors # <<>>
        THEN IncorrectlyCasedWords(errors)
        ELSE IF invalid # <<>>
        THEN NonAsciiWords(invalid)
        ELSE NameOk(input, [k \in 1..Len(results) |->
                              [case |-> results[k].case, word |-> results[k].word]])

(* Name::from_str; `order` is the iteration order of the replacement table. *)
from_str(input, order) ==
    LET tokens == Tokens(input)
        invalid == SelectSeq(tokens, LAMBDA t : ~IsAscii(t))
        results == [k \in 1..Len(tokens) |-> validate_word_case(tokens[k], order)]
        errors == SelectSeq(results, LAMBDA r : ~r.ok)
    IN  IF invalid # <<>>
        THEN NonAsciiWords(invalid)
        ELSE IF errors # <<>>
        THEN IncorrectlyCasedWords(errors)
        ELSE NameOk(input, [k \in 1..Len(results) |->
                              [case |-> results[k].case, word |-> results[k].word]])

(* ---------------------------------------------------------------------- *)
(* State                                                                   *)
(* ---------------------------------------------------------------------- *)

VARIABLES
    pc,             \* where the run is: read, index, link, bfs, chain, write,
                    \* done, failed, hang
    nodes,          \* main: the rows read so far, each [name, parent]
    indexes,        \* main: name -> node index
    graphNodes,     \* the graph's node weights, by index
    edges,          \* the graph's edges <<source, target>>, in insertion order
    i,              \* main: the position of the running loop
    root,           \* main: <<>> for None, <<name>> for Some(name)
    rootIndex,      \* scaffold_from_graph: root_index (0 before the call)
    stack,          \* Bfs: the queue of discovered, unvisited nodes
    discovered,     \* Bfs: the nodes discovered so far
    visited,        \* the nodes bfs.next has returned, in order
    index,          \* scaffold_from_graph: the node being resolved
    currentIndex,   \* scaffold_from_graph: current_index
    pathElements,   \* scaffold_from_graph: path_elements
    dirs,           \* the directories created under the output directory
    files,          \* the files created under the output directory
    writes,         \* the File::create calls that succeeded, in order:
                    \* <<node index, file>>
    input,          \* Name::from_str: the string handed to it
    parsed,         \* Name::from_str: what it returned
    again,          \* the string handed to Name::from_str the second time
    reparsed,       \* Name::from_str: what it returned the second time
    builder,        \* node::Builder: its three optional fields
    built,          \* Builder::try_build: what it returned
    identifier,     \* the Identifier that is displayed
    err             \* the error the run ended with

vars == << pc, nodes, indexes, graphNodes, edges, i, root, rootIndex, stack,
           discovered, visited, index, currentIndex, pathElements, dirs, files,
           writes, input, parsed, again, reparsed, builder, built, identifier, err >>

mainVars == << nodes, indexes, i, root >>
graphVars == << graphNodes, edges >>
bfsVars == << stack, discovered, visited >>
chainVars == << index, currentIndex, pathElements >>
fsVars == << dirs, files, writes >>
nameVars == << input, parsed, again, reparsed >>
otherVars == << builder, built, identifier >>

NoError == [kind |-> "None", first |-> Empty, second |-> Empty]
Error(kind, first, second) == [kind |-> kind, first |-> first, second |-> second]

Row(name, parent) == [name |-> name, parent |-> parent]

(* ---------------------------------------------------------------------- *)
(* petgraph: DiGraph and Bfs                                               *)
(* ---------------------------------------------------------------------- *)

(* Graph::neighbors_directed: one entry per edge of the node in the given  *)
(* direction, the most recently added edge first.  side = 1 reads the      *)
(* edges leaving n and yields their targets, side = 2 the edges entering n *)
(* and yields their sources; a self-loop is reported in both directions.  *)
RECURSIVE NeighborsFrom(_, _, _, _)
NeighborsFrom(E, n, side, k) ==
    IF k = 0 THEN <<>>
    ELSE (IF E[k][side] = n THEN << E[k][3 - side] >> ELSE <<>>)
         \o NeighborsFrom(E, n, side, k - 1)

Outgoing(E, n) == NeighborsFrom(E, n, 1, Len(E))
Incoming(E, n) == NeighborsFrom(E, n, 2, Len(E))

(* Bfs::next, after the pop: every successor not yet discovered is marked  *)
(* and pushed to the back of the queue.  The result is <<stack, discovered>>. *)
RECURSIVE PushSuccessors(_, _, _)
PushSuccessors(succs, stk, disc) ==
    IF succs = <<>> THEN << stk, disc >>
    ELSE IF Head(succs) \in disc
         THEN PushSuccessors(Tail(succs), stk, disc)
         ELSE PushSuccessors(Tail(succs), Append(stk, Head(succs)),
                             disc \cup { Head(succs) })

(* ---------------------------------------------------------------------- *)
(* main (init.rs)                                                          *)
(* ---------------------------------------------------------------------- *)

Init ==
    /\ pc = "read"
    /\ nodes = <<>>
    /\ indexes = << >>
    /\ graphNodes = <<>>
    /\ edges = <<>>
    /\ i = 0
    /\ root = <<>>
    /\ rootIndex = 0
    /\ stack = <<>>
    /\ discovered = {}
    /\ visited = <<>>
    /\ index = 0
    /\ currentIndex = 0
    /\ pathElements = <<>>
    /\ dirs = {}
    /\ files = {}
    /\ writes = <<>>
    /\ input = <<>>
    /\ parsed = NotParsed
    /\ again = <<>>
    /\ reparsed = NotParsed
    /\ builder = DefaultBuilder
    /\ built = NotParsed
    /\ identifier = NotParsed
    /\ err = NoError

Fail(e) ==
    /\ pc' = "failed"
    /\ err' = e

(* File::open(&args.tsv) fails and `?` returns its error. *)
OpenFail ==
    /\ UNCHANGED << nameVars, otherVars >>
    /\ pc = "read"
    /\ nodes = <<>>
    /\ Fail(Error("Open", Empty, Empty))
    /\ UNCHANGED << mainVars, graphVars, rootIndex, bfsVars, chainVars, fsVars >>

(* for result in reader.deserialize(): the next record does not            *)
(* deserialise into a Node (a malformed record, or a name or parent that   *)
(* Name::from_str rejects) and `result?` returns the error.                *)
ReadFail ==
    /\ UNCHANGED << nameVars, otherVars >>
    /\ pc = "read"
    /\ Len(nodes) < MaxRows
    /\ Fail(Error("Deserialize", Empty, Empty))
    /\ UNCHANGED << mainVars, graphVars, rootIndex, bfsVars, chainVars, fsVars >>

(* for result in reader.deserialize(): one more row is read and pushed. *)
ReadRow ==
    /\ UNCHANGED << nameVars, otherVars >>
    /\ pc = "read"
    /\ Len(nodes) < MaxRows
    /\ \E name \in Names, parent \in Names :
          nodes' = Append(nodes, Row(name, parent))
    /\ UNCHANGED << pc, indexes, i, root, rootIndex, err >>
    /\ UNCHANGED << graphVars, bfsVars, chainVars, fsVars >>

(* A variant that creates the output directory before the rows are checked. *)
EndReadMkdir ==
    /\ UNCHANGED << nameVars, otherVars >>
    /\ pc = "read"
    /\ pc' = "index"
    /\ i' = 1
    /\ graphNodes' = <<>>
    /\ edges' = <<>>
    /\ dirs' = dirs \cup { <<>> }
    /\ UNCHANGED << nodes, indexes, root, rootIndex, err >>
    /\ UNCHANGED << bfsVars, chainVars, files, writes >>

(* The reader is exhausted; the graph is created empty. *)
EndRead ==
    /\ UNCHANGED << nameVars, otherVars >>
    /\ pc = "read"
    /\ pc' = "index"
    /\ i' = 1
    /\ graphNodes' = <<>>
    /\ edges' = <<>>
    /\ UNCHANGED << nodes, indexes, root, rootIndex, err >>
    /\ UNCHANGED << bfsVars, chainVars, fsVars >>

ContainsKey(map, key) == key \in DOMAIN map

(* A variant that keys a node by its parent column. *)
KeyOfParent(node) == node.parent

(* node.name().inner().to_string(): the key of a node is its raw name. *)
KeyOf(node) == node.name

(* A variant without the duplicate check. *)
NeverIndexed(name) == FALSE

(* indexes.contains_key(&name), the duplicate check of the first loop. *)
AlreadyIndexed(name) == ContainsKey(indexes, name)

DuplicateNode(name) == Error("DuplicateNode", name, Empty)
NodeDoesNotExist(name) == Error("NodeDoesNotExist", name, Empty)
(* A variant that reports the two roots in the other order. *)
MultipleRootsSwapped(first, second) == Error("MultipleRoots", second, first)

MultipleRoots(first, second) == Error("MultipleRoots", first, second)

(* A variant that reports the row's own name instead of its parent. *)
MissingParentNamesChild(name, parent) == Error("MissingParent", name, Empty)

MissingParent(name, parent) == Error("MissingParent", parent, Empty)
NoRootFound == Error("NoRootFound", Empty, Empty)

(* A variant that adds the edge from the child to the parent. *)
NewEdgeReversed(parent_index, node_index) == << node_index, parent_index >>

(* graph.add_edge(parent_index, node_index, ()) *)
NewEdge(parent_index, node_index) == << parent_index, node_index >>

MapInsert(map, key, value) ==
    [k \in DOMAIN map \cup { key } |-> IF k = key THEN value ELSE map[k]]

(* One turn of `for node in &nodes`: the name is indexed, or is a        *)
(* duplicate.                                                              *)
IndexNode ==
    /\ UNCHANGED << nameVars, otherVars >>
    /\ pc = "index"
    /\ i <= Len(nodes)
    /\ LET name == KeyOf(nodes[i])
       IN  IF AlreadyIndexed(name)
           THEN /\ Fail(DuplicateNode(name))
                /\ UNCHANGED << indexes, graphNodes, i >>
           ELSE /\ graphNodes' = Append(graphNodes, nodes[i])
                /\ indexes' = MapInsert(indexes, name, Len(graphNodes) + 1)
                /\ i' = i + 1
                /\ UNCHANGED << pc, err >>
    /\ UNCHANGED << nodes, edges, root, rootIndex >>
    /\ UNCHANGED << bfsVars, chainVars, fsVars >>

(* The first loop is over; `let mut root = None`. *)
IndexDone ==
    /\ UNCHANGED << nameVars, otherVars >>
    /\ pc = "index"
    /\ i > Len(nodes)
    /\ pc' = "link"
    /\ i' = 1
    /\ root' = <<>>
    /\ UNCHANGED << nodes, indexes, rootIndex, err >>
    /\ UNCHANGED << graphVars, bfsVars, chainVars, fsVars >>

(* A variant with the test inverted. *)
IsRootRowInverted(parent) == parent # Empty

IsRootRow(parent) == parent = Empty

(* A variant that finds a key only when its row comes before the running   *)
(* one.                                                                    *)
GetOfEarlierRow(map, key) ==
    IF key \in DOMAIN map /\ map[key] < i THEN << map[key] >> ELSE <<>>

(* indexes.get(&parent).cloned() *)
Get(map, key) == IF key \in DOMAIN map THEN << map[key] >> ELSE <<>>

(* One turn of `for node in nodes`: the node is the root candidate, or is  *)
(* linked below its parent.                                                *)
LinkNode ==
    /\ UNCHANGED << nameVars, otherVars >>
    /\ pc = "link"
    /\ i <= Len(nodes)
    /\ LET name == KeyOf(nodes[i])
           parent == nodes[i].parent
       IN  IF ~ContainsKey(indexes, name)
           THEN /\ Fail(NodeDoesNotExist(name))
                /\ UNCHANGED << edges, root, i >>
           ELSE IF IsRootRow(parent)
           THEN IF root # <<>>
                THEN /\ Fail(MultipleRoots(root[1], name))
                     /\ UNCHANGED << edges, root, i >>
                ELSE /\ root' = << name >>
                     /\ i' = i + 1
                     /\ UNCHANGED << pc, err, edges >>
           ELSE IF Get(indexes, parent) = <<>>
           THEN /\ Fail(MissingParent(name, parent))
                /\ UNCHANGED << edges, root, i >>
           ELSE /\ edges' = Append(edges, NewEdge(Get(indexes, parent)[1], indexes[name]))
                /\ i' = i + 1
                /\ UNCHANGED << pc, err, root >>
    /\ UNCHANGED << nodes, indexes, graphNodes, rootIndex >>
    /\ UNCHANGED << bfsVars, chainVars, fsVars >>

(* A variant that starts the traversal at the first node of the graph. *)
BfsNewAtFirstNode(start) ==
    /\ rootIndex' = start
    /\ stack' = << 1 >>
    /\ discovered' = { 1 }
    /\ visited' = <<>>

(* Bfs::new(&graph, root_index): the root is discovered and queued. *)
BfsNew(start) ==
    /\ rootIndex' = start
    /\ stack' = << start >>
    /\ discovered' = { start }
    /\ visited' = <<>>

(* The second loop is over: the root is looked up and the graph is handed  *)
(* to Directory::scaffold_from_graph, or there is no root.                *)
FinishBuild ==
    /\ UNCHANGED << nameVars, otherVars >>
    /\ pc = "link"
    /\ i > Len(nodes)
    /\ IF root = <<>>
       THEN /\ Fail(NoRootFound)
            /\ UNCHANGED << rootIndex, bfsVars >>
       ELSE /\ BfsNew(indexes[root[1]])
            /\ pc' = "bfs"
            /\ UNCHANGED err
    /\ UNCHANGED << mainVars, graphVars, chainVars, fsVars >>

(* ---------------------------------------------------------------------- *)
(* Directory::scaffold_from_graph (directory.rs)                           *)
(* ---------------------------------------------------------------------- *)

NodeName(n) == graphNodes[n].name

(* root_name, read once from the root's weight. *)
RootName == NodeName(rootIndex)

(* A variant that takes the node at the back of the queue. *)
PopBack(stk) == << stk[Len(stk)], SubSeq(stk, 1, Len(stk) - 1) >>

(* self.stack.pop_front(): the node at the front and the rest of the queue. *)
PopFront(stk) == << Head(stk), Tail(stk) >>

(* while let Some(index) = bfs.next(&graph): the next node is popped and   *)
(* its undiscovered successors are queued, or the walk is over.            *)
BfsNext ==
    /\ UNCHANGED << nameVars, otherVars >>
    /\ pc = "bfs"
    /\ IF stack = <<>>
       THEN /\ pc' = "done"
            /\ UNCHANGED << bfsVars, chainVars >>
       ELSE LET n == PopFront(stack)[1]
                pushed == PushSuccessors(Outgoing(edges, n), PopFront(stack)[2], discovered)
            IN  /\ stack' = pushed[1]
                /\ discovered' = pushed[2]
                /\ visited' = Append(visited, n)
                /\ index' = n
                /\ currentIndex' = n
                /\ pathElements' = <<>>
                /\ pc' = "chain"
    /\ UNCHANGED << mainVars, graphVars, rootIndex, fsVars, err >>

IsRootName(name) == name = RootName

(* A variant that adds the parent at the back of the chain. *)
PushBack(elements, name) == Append(elements, name)

(* path_elements.push_front(parent.name().clone()) *)
PushFront(elements, name) == << name >> \o elements

ExactlyOneParent(neighbors) == Len(neighbors) = 1

(* One turn of the ancestor loop.  A walk that has taken as many steps as  *)
(* the graph has nodes has come back to a node it left through its only    *)
(* incoming edge, and repeats from there for ever: pc = "hang".           *)
ChainStep ==
    /\ UNCHANGED << nameVars, otherVars >>
    /\ pc = "chain"
    /\ LET neighbors == Incoming(edges, currentIndex)
       IN  IF neighbors = <<>>
           THEN IF ~IsRootName(NodeName(currentIndex))
                THEN /\ Fail(Error("DisconnectedRoot", NodeName(currentIndex), Empty))
                     /\ UNCHANGED chainVars
                ELSE /\ pc' = "write"
                     /\ UNCHANGED << chainVars, err >>
           ELSE IF ~ExactlyOneParent(neighbors)
           THEN /\ Fail(Error("MultipleParents", Empty, Empty))
                /\ UNCHANGED chainVars
           ELSE /\ currentIndex' = neighbors[Len(neighbors)]
                /\ pathElements' = PushFront(pathElements, NodeName(neighbors[Len(neighbors)]))
                /\ pc' = IF Len(pathElements) + 1 >= Len(graphNodes) THEN "hang" ELSE "chain"
                /\ UNCHANGED << index, err >>
    /\ UNCHANGED << mainVars, graphVars, rootIndex, bfsVars, fsVars >>

File == FilePath(pathElements, NodeName(index))

(* The directories are created, the file is created and the node is        *)
(* serialised into it.                                                     *)
WriteFile ==
    /\ UNCHANGED << nameVars, otherVars >>
    /\ pc = "write"
    /\ dirs' = dirs \cup DirsUpTo(ParentDir(File))
    /\ files' = files \cup { File }
    /\ writes' = Append(writes, << index, File >>)
    /\ pc' = "bfs"
    /\ UNCHANGED << mainVars, graphVars, rootIndex, bfsVars, chainVars, err >>

(* One of the three file-system calls fails and `?` returns its error:     *)
(* create_dir_all, File::create, or serde_yaml::to_writer.                 *)
WriteFail ==
    /\ UNCHANGED << nameVars, otherVars >>
    /\ pc = "write"
    /\ \E stage \in { "create_dir_all", "create", "to_writer" } :
          /\ dirs' = IF stage = "create_dir_all" THEN dirs
                     ELSE dirs \cup DirsUpTo(ParentDir(File))
          /\ files' = IF stage = "to_writer" THEN files \cup { File } ELSE files
          /\ writes' = IF stage = "to_writer" THEN Append(writes, << index, File >>)
                       ELSE writes
    /\ Fail(Error("Io", Empty, Empty))
    /\ UNCHANGED << mainVars, graphVars, rootIndex, bfsVars, chainVars >>

Next ==
    \/ OpenFail
    \/ ReadFail
    \/ ReadRow
    \/ EndRead
    \/ IndexNode
    \/ IndexDone
    \/ LinkNode
    \/ FinishBuild
    \/ BfsNext
    \/ ChainStep
    \/ WriteFile
    \/ WriteFail

Spec == Init /\ [][Next]_vars

(* ---------------------------------------------------------------------- *)
(* scaffold_from_graph called directly, on any graph and any root index    *)
(* ---------------------------------------------------------------------- *)

RECURSIVE SeqsUpTo(_, _)
SeqsUpTo(S, n) ==
    IF n = 0 THEN { <<>> }
    ELSE SeqsUpTo(S, n - 1)
         \cup { Append(q, x) : q \in { r \in SeqsUpTo(S, n - 1) : Len(r) = n - 1 }, x \in S }

GraphIndexes == 1..GraphNodes

InitGraph ==
    /\ pc = "bfs"
    /\ nodes = <<>>
    /\ indexes = << >>
    /\ i = 0
    /\ root = <<>>
    /\ graphNodes \in [GraphIndexes -> { Row(name, Empty) : name \in WeightNames }]
    /\ edges \in SeqsUpTo(GraphIndexes \X GraphIndexes, GraphEdges)
    /\ rootIndex \in GraphIndexes
    /\ stack = << rootIndex >>
    /\ discovered = { rootIndex }
    /\ visited = <<>>
    /\ index = 0
    /\ currentIndex = 0
    /\ pathElements = <<>>
    /\ dirs = {}
    /\ files = {}
    /\ writes = <<>>
    /\ input = <<>>
    /\ parsed = NotParsed
    /\ again = <<>>
    /\ reparsed = NotParsed
    /\ builder = DefaultBuilder
    /\ built = NotParsed
    /\ identifier = NotParsed
    /\ err = NoError

NextGraph ==
    \/ BfsNext
    \/ ChainStep
    \/ WriteFile
    \/ WriteFail

SpecGraph == InitGraph /\ [][NextGraph]_vars

(* ---------------------------------------------------------------------- *)
(* scaffold_from_graph called by main on the graph of a chain of rows      *)
(* ---------------------------------------------------------------------- *)

(* The names the rows of a chain may carry; Name::from_str accepts each. *)
ChainNames ==
    { <<"A">>,
      <<"A", ",">>,
      <<"A", ";", " ", "B">>,
      <<"A", " ", " ", "B">>,
      <<"A", "\t", "B">>,
      <<"A", "U+00A0", "B">>,
      <<"K", "M", "T", "2", "A">>,
      <<"B", "-", "c", "e", "l", "l", "/", "T", "-", "c", "e", "l", "l">>,
      <<".", ".">>,
      <<"/", "A">> }

Chains ==
    { names \in SeqsUpTo(ChainNames, ChainLen) :
        /\ names # <<>>
        /\ \A j, k \in 1..Len(names) : names[j] = names[k] => j = k }

(* The state in which main calls scaffold_from_graph for the rows          *)
(* (n1, ''), (n2, n1), (n3, n2), ...                                       *)
InitChain ==
    \E names \in Chains :
       /\ pc = "bfs"
       /\ nodes = [k \in 1..Len(names) |->
                     Row(names[k], IF k = 1 THEN Empty ELSE names[k - 1])]
       /\ indexes = [name \in { names[k] : k \in 1..Len(names) } |->
                       CHOOSE k \in 1..Len(names) : names[k] = name]
       /\ i = Len(names) + 1
       /\ root = << names[1] >>
       /\ graphNodes = nodes
       /\ edges = [k \in 1..(Len(names) - 1) |-> NewEdge(k, k + 1)]
       /\ rootIndex = 1
       /\ stack = << 1 >>
       /\ discovered = { 1 }
       /\ visited = <<>>
       /\ index = 0
       /\ currentIndex = 0
       /\ pathElements = <<>>
       /\ dirs = {}
       /\ files = {}
       /\ writes = <<>>
       /\ input = <<>>
       /\ parsed = NotParsed
       /\ again = <<>>
       /\ reparsed = NotParsed
       /\ builder = DefaultBuilder
       /\ built = NotParsed
       /\ identifier = NotParsed
       /\ err = NoError

NextChain ==
    \/ BfsNext
    \/ ChainStep
    \/ WriteFile
    \/ WriteFail

SpecChain == InitChain /\ [][NextChain]_vars

(* ---------------------------------------------------------------------- *)
(* scaffold_from_graph called by main on the graph of any rows it accepts  *)
(* ---------------------------------------------------------------------- *)

(* The name of the k-th row. *)
RowNames == << <<"A">>, <<"B">>, <<"A", ",">>, <<"C">>, <<"D">> >>

(* The rows main accepts: the names differ, one row has an empty parent    *)
(* and the parent of every other row is the name of some row.  parents[k]  *)
(* is the row that the parent column of row k names, 0 for the empty one.  *)
AcceptedParents ==
    UNION { { parents \in [1..n -> 0..n] :
                \E r \in 1..n : \A k \in 1..n : parents[k] = 0 <=> k = r }
            : n \in 1..MaxNodes }

(* The state in which main calls scaffold_from_graph for these rows: every *)
(* row is a node, in row order, and every row but the root has added its   *)
(* edge, in row order.                                                     *)
InitBuilt ==
    \E parents \in AcceptedParents :
       LET n == Len(parents)
           r == CHOOSE k \in 1..n : parents[k] = 0
       IN  /\ pc = "bfs"
           /\ nodes = [k \in 1..n |->
                         Row(RowNames[k], IF k = r THEN Empty ELSE RowNames[parents[k]])]
           /\ indexes = [name \in { RowNames[k] : k \in 1..n } |->
                           CHOOSE k \in 1..n : RowNames[k] = name]
           /\ i = n + 1
           /\ root = << RowNames[r] >>
           /\ graphNodes = nodes
           /\ edges = [k \in 1..(n - 1) |->
                         IF k < r THEN NewEdge(parents[k], k)
                         ELSE NewEdge(parents[k + 1], k + 1)]
           /\ rootIndex = r
           /\ stack = << r >>
           /\ discovered = { r }
           /\ visited = <<>>
           /\ index = 0
           /\ currentIndex = 0
           /\ pathElements = <<>>
           /\ dirs = {}
           /\ files = {}
           /\ writes = <<>>
           /\ input = <<>>
           /\ parsed = NotParsed
           /\ again = <<>>
           /\ reparsed = NotParsed
           /\ builder = DefaultBuilder
           /\ built = NotParsed
           /\ identifier = NotParsed
           /\ err = NoError

NextBuilt ==
    \/ BfsNext
    \/ ChainStep
    \/ WriteFile
    \/ WriteFail

SpecBuilt == InitBuilt /\ [][NextBuilt]_vars

(* ---------------------------------------------------------------------- *)
(* node::Builder (builder.rs)                                              *)
(* ---------------------------------------------------------------------- *)

(* The names and the short codes a builder is given. *)
BuilderNames == { Empty, <<"A">>, <<"B">>, <<"A", ",">> }
BuilderCodes == { Empty, <<"X">>, <<"Y">> }

MissingField(field) == [kind |-> "MissingField", field |-> field]

BuiltNode(name, parent, code) ==
    [kind |-> "Ok", name |-> name, parent |-> parent, code |-> code]

(* Builder::try_build *)
try_build(self) ==
    IF self.name = <<>> THEN MissingField("name")
    ELSE IF self.parent = <<>> THEN MissingField("parent")
    ELSE IF self.code = <<>> THEN MissingField("code")
    ELSE BuiltNode(self.name[1], self.parent[1], self.code[1])

InitBuilder ==
    /\ pc = "builder"
    /\ builder = DefaultBuilder
    /\ built = NotParsed
    /\ identifier = NotParsed
    /\ input = <<>>
    /\ parsed = NotParsed
    /\ again = <<>>
    /\ reparsed = NotParsed
    /\ nodes = <<>>
    /\ indexes = << >>
    /\ graphNodes = <<>>
    /\ edges = <<>>
    /\ i = 0
    /\ root = <<>>
    /\ rootIndex = 0
    /\ stack = <<>>
    /\ discovered = {}
    /\ visited = <<>>
    /\ index = 0
    /\ currentIndex = 0
    /\ pathElements = <<>>
    /\ dirs = {}
    /\ files = {}
    /\ writes = <<>>
    /\ err = NoError

BuilderFrame ==
    /\ UNCHANGED << nameVars, identifier >>
    /\ UNCHANGED << mainVars, graphVars, rootIndex, bfsVars, chainVars, fsVars, err >>

(* Builder::name *)
SetName ==
    /\ pc = "builder"
    /\ \E value \in BuilderNames : builder' = [builder EXCEPT !.name = << value >>]
    /\ UNCHANGED << pc, built >>
    /\ BuilderFrame

(* Builder::parent *)
SetParent ==
    /\ pc = "builder"
    /\ \E value \in BuilderNames : builder' = [builder EXCEPT !.parent = << value >>]
    /\ UNCHANGED << pc, built >>
    /\ BuilderFrame

(* Builder::code *)
SetCode ==
    /\ pc = "builder"
    /\ \E value \in BuilderCodes : builder' = [builder EXCEPT !.code = << value >>]
    /\ UNCHANGED << pc, built >>
    /\ BuilderFrame

(* builder.try_build() *)
TryBuild ==
    /\ pc = "builder"
    /\ built' = try_build(builder)
    /\ pc' = "built"
    /\ UNCHANGED builder
    /\ BuilderFrame

NextBuilder ==
    \/ SetName
    \/ SetParent
    \/ SetCode
    \/ TryBuild

SpecBuilder == InitBuilder /\ [][NextBuilder]_vars

(* ---------------------------------------------------------------------- *)
(* rfc::Link (rfc.rs)                                                      *)
(* ---------------------------------------------------------------------- *)

DigitChars == { "0", "1", "2", "3", "4", "5", "6", "7", "8", "9" }

(* The text of VALID_LINK_REGEX before the class [0-9]+.  In a regex the   *)
(* character '.' stands for any character.                                 *)
VALID_LINK_REGEX ==
    << "h", "t", "t", "p", "s", ":", "/", "/", "g", "i", "t", "h", "u",
       "b", ".", "c", "o", "m", "/", "s", "t", "j", "u", "d", "e", "c",
       "l", "o", "u", "d", "/", "e", "c", "c", "/", "i", "s", "s", "u",
       "e", "s", "/" >>

(* One element of the regex matches one character. *)
RegexCharMatches(element, c) == element = "." \/ element = c

(* Regex::is_match: the regex is not anchored, it matches if it matches at *)
(* some position of the string; [0-9]+ needs one digit there.              *)
is_match(haystack) ==
    \E p \in 1..Len(haystack) :
       /\ p + Len(VALID_LINK_REGEX) <= Len(haystack)
       /\ \A k \in 1..Len(VALID_LINK_REGEX) :
             RegexCharMatches(VALID_LINK_REGEX[k], haystack[p + k - 1])
       /\ haystack[p + Len(VALID_LINK_REGEX)] \in DigitChars

UrlSchemes == { <<"h", "t", "t", "p", "s", ":", "/", "/">>, <<"h", "t", "t", "p", ":", "/", "/">> }

HasScheme(s) == \E scheme \in UrlSchemes : StartsWith(s, scheme)

SchemeOf(s) == CHOOSE scheme \in UrlSchemes : StartsWith(s, scheme)

(* The characters after which the host of a URL is over. *)
HostEnds == { "/", "?", "#" }

RECURSIVE HostOf(_)
HostOf(s) ==
    IF s = <<>> \/ Head(s) \in HostEnds THEN <<>>
    ELSE << Head(s) >> \o HostOf(Tail(s))

(* s.parse::<Url>(): <<>> for an error (no scheme, which is a relative URL *)
(* without a base, or an empty host), else << the URL as url.as_str()      *)
(* gives it >>: the host in lower case, and '/' for an empty path.         *)
ParseUrl(s) ==
    IF ~HasScheme(s) THEN <<>>
    ELSE LET afterScheme == SubSeq(s, Len(SchemeOf(s)) + 1, Len(s))
             host == HostOf(afterScheme)
             rest == SubSeq(afterScheme, Len(host) + 1, Len(afterScheme))
         IN  IF host = <<>> THEN <<>>
             ELSE << SchemeOf(s) \o to_lowercase(host)
                     \o (IF rest = <<>> \/ Head(rest) # "/" THEN << "/" >> ELSE <<>>)
                     \o rest >>

LinkOk(url) == [kind |-> "Ok", url |-> url]
LinkInvalid(value) == [kind |-> "Invalid", value |-> value]
LinkUrlError(value) == [kind |-> "Url", value |-> value]

(* Link::from_str *)
link_from_str(s) ==
    IF ParseUrl(s) = <<>> THEN LinkUrlError(s)
    ELSE IF is_match(ParseUrl(s)[1]) THEN LinkOk(ParseUrl(s)[1])
    ELSE LinkInvalid(s)

(* The strings handed to Link::from_str are put together from these. *)
LinkBefore == { <<>>, <<"h", "t", "t", "p", "s", ":", "/", "/", "e", ".", "i", "o", "/", "?", "u", "=">> }
LinkSchemes == { <<>> } \cup UrlSchemes
LinkHosts ==
    { <<"g", "i", "t", "h", "u", "b", ".", "c", "o", "m">>,
      <<"g", "i", "t", "h", "u", "b", "x", "c", "o", "m">>,
      <<"G", "i", "t", "H", "u", "b", ".", "c", "o", "m">> }
LinkPaths ==
    { << "/", "s", "t", "j", "u", "d", "e", "c", "l", "o", "u", "d", "/",
         "e", "c", "c", "/", "i", "s", "s", "u", "e", "s", "/" >>,
      << "/", "s", "t", "j", "u", "d", "e", "c", "l", "o", "u", "d", "/",
         "a", "n", "o", "t", "h", "e", "r", "-", "r", "e", "p", "o", "/",
         "i", "s", "s", "u", "e", "s", "/" >> }
LinkNumbers == SeqsUpTo({ "0", "7" }, MaxDigits)
LinkAfter == { <<>>, <<"/", "x">>, <<"a", "b", "c">> }

LinkInputs ==
    { before \o scheme \o host \o path \o number \o after :
        before \in LinkBefore, scheme \in LinkSchemes, host \in LinkHosts,
        path \in LinkPaths, number \in LinkNumbers, after \in LinkAfter }
    \cup { <<"/", "h", "o", "m", "e", "/", "f", "o", "o", "/", "b", "a", "r">> }

InitLink ==
    /\ pc = "link"
    /\ input \in LinkInputs
    /\ parsed = NotParsed
    /\ again = <<>>
    /\ reparsed = NotParsed
    /\ builder = DefaultBuilder
    /\ built = NotParsed
    /\ identifier = NotParsed
    /\ nodes = <<>>
    /\ indexes = << >>
    /\ graphNodes = <<>>
    /\ edges = <<>>
    /\ i = 0
    /\ root = <<>>
    /\ rootIndex = 0
    /\ stack = <<>>
    /\ discovered = {}
    /\ visited = <<>>
    /\ index = 0
    /\ currentIndex = 0
    /\ pathElements = <<>>
    /\ dirs = {}
    /\ files = {}
    /\ writes = <<>>
    /\ err = NoError

(* input.parse::<Link>() *)
ParseLink ==
    /\ pc = "link"
    /\ parsed' = link_from_str(input)
    /\ pc' = "linked"
    /\ UNCHANGED << input, again, reparsed >>
    /\ UNCHANGED << mainVars, graphVars, rootIndex, bfsVars, chainVars, fsVars, otherVars, err >>

NextLink == ParseLink

SpecLink == InitLink /\ [][NextLink]_vars

(* ---------------------------------------------------------------------- *)
(* Identifier (identifier.rs)                                              *)
(* ---------------------------------------------------------------------- *)

PREFIX == <<"E", "C", "C">>
JOIN_CHAR == "-"
EXPECTED_PARTS == 3

(* The minimum width of `{n:06}` in Display. *)
DisplayWidth == 6

(* The length from_str requires of the number: number_as_str.len() != 6. *)
RequiredLength == 6

Molecular(n) == [kind |-> "Molecular", n |-> n]
Morphological(n) == [kind |-> "Morphological", n |-> n]

(* Identifier::molecular: None for 0. *)
molecular(n) == IF n = 0 THEN <<>> ELSE << Molecular(n) >>

(* Identifier::morphological: None for 0. *)
morphological(n) == IF n = 0 THEN <<>> ELSE << Morphological(n) >>

DigitChar(d) == <<"0", "1", "2", "3", "4", "5", "6", "7", "8", "9">>[d + 1]
DigitValue(c) == CHOOSE d \in 0..9 : DigitChar(d) = c

(* The decimal digits of a number, without padding. *)
RECURSIVE Digits(_)
Digits(n) ==
    IF n < 10 THEN << DigitChar(n) >>
    ELSE Append(Digits(n \div 10), DigitChar(n % 10))

(* The format `0<width>`: zeros are added at the left up to the width; a   *)
(* longer number is written in full.                                       *)
RECURSIVE ZeroPad(_, _)
ZeroPad(digits, width) ==
    IF Len(digits) >= width THEN digits
    ELSE ZeroPad(<< "0" >> \o digits, width)

(* impl Display for Identifier *)
fmt(self) ==
    PREFIX \o << JOIN_CHAR >>
    \o (IF self.kind = "Molecular" THEN <<"M", "O", "L", "E", "C">>
        ELSE <<"M", "O", "R", "P", "H">>)
    \o << JOIN_CHAR >> \o ZeroPad(Digits(self.n), DisplayWidth)

(* str::split(JOIN_CHAR): the parts between the join characters, the empty *)
(* ones included.                                                          *)
RECURSIVE Split(_, _)
Split(s, part) ==
    IF s = <<>> THEN << part >>
    ELSE IF Head(s) = JOIN_CHAR
         THEN << part >> \o Split(Tail(s), <<>>)
         ELSE Split(Tail(s), Append(part, Head(s)))

RECURSIVE ValueOf(_)
ValueOf(digits) ==
    IF digits = <<>> THEN 0
    ELSE 10 * ValueOf(SubSeq(digits, 1, Len(digits) - 1)) + DigitValue(digits[Len(digits)])

(* str::parse::<u64>: an optional '+' and at least one digit; <<>> for an   *)
(* error, <<n>> for a number.  The numbers of the model are far below the  *)
(* overflow of u64.                                                        *)
parse_u64(s) ==
    LET digits == IF s # <<>> /\ Head(s) = "+" THEN Tail(s) ELSE s
    IN  IF digits = <<>> \/ \E k \in 1..Len(digits) : digits[k] \notin DigitChars
        THEN <<>>
        ELSE << ValueOf(digits) >>

IdentifierOk(identifier_) == [kind |-> "Ok", identifier |-> identifier_]
IdentifierError(kind, found) == [kind |-> kind, found |-> found]

(* impl FromStr for Identifier *)
identifier_from_str(s) ==
    LET parts == Split(s, <<>>)
    IN  IF Len(parts) # EXPECTED_PARTS
        THEN IdentifierError("IncorrectNumberOfParts", Len(parts))
        ELSE LET prefix == parts[1]
                 type == parts[2]
                 number_as_str == parts[3]
                 number == parse_u64(number_as_str)
             IN  IF prefix # PREFIX
                 THEN IdentifierError("InvalidPrefix", prefix)
                 ELSE IF number = <<>>
                 THEN IdentifierError("InvalidNumber", number_as_str)
                 ELSE IF number[1] = 0
                 THEN IdentifierError("InvalidNumber", number_as_str)
                 ELSE IF Len(number_as_str) # RequiredLength
                 THEN IdentifierError("InvalidNumberPadding", number_as_str)
                 ELSE IF type = <<"M", "O", "L", "E", "C">>
                 THEN IdentifierOk(Molecular(number[1]))
                 ELSE IF type = <<"M", "O", "R", "P", "H">>
                 THEN IdentifierOk(Morphological(number[1]))
                 ELSE IdentifierError("UnknownType", type)

RECURSIVE Pow10(_)
Pow10(k) == IF k = 0 THEN 1 ELSE 10 * Pow10(k - 1)

(* The numbers identifiers are made of: 0 and the numbers around every     *)
(* power of ten of up to MaxNumberDigits digits.                           *)
IdentifierNumbers ==
    UNION { { Pow10(k) - 1, Pow10(k), Pow10(k) + 1 } : k \in 0..(MaxNumberDigits - 1) }

(* Strings that are parsed as they are. *)
IdentifierTexts ==
    { <<"E", "C", "C", "-", "M", "O", "L", "E", "C", "-", "1">>,
      <<"E", "C", "C", "-", "M", "O", "L", "E", "C", "-", "0", "0", "0", "0", "0", "0">>,
      <<"E", "C", "C", "-", "F", "O", "O", "-", "0", "0", "0", "0", "0", "1">>,
      <<"E", "E", "C", "-", "M", "O", "L", "E", "C", "-", "0", "0", "0", "0", "0", "1">>,
      <<"E", "C", "C", "-", "M", "O", "L", "E", "C">>,
      <<"E", "C", "C", "-", "M", "O", "L", "E", "C", "-", "0", "0", "0", "-", "0", "0", "1">>,
      <<"E", "C", "C", "-", "M", "O", "R", "P", "H", "-", "+", "0", "0", "0", "0", "1">>,
      <<"E", "C", "C", "-", "M", "O", "R", "P", "H", "-", "0", "0", "0", "0", "0", "x">>,
      <<"E", "C", "C", "-", "M", "O", "R", "P", "H", "-">>,
      <<"E", "C", "C", "-", "M", "O", "R", "P", "H", "-", "0", "0", "0", "0", "4", "2">> }

InitIdentifier ==
    /\ pc = "identifier"
    /\ input = <<>>
    /\ parsed = NotParsed
    /\ again = <<>>
    /\ reparsed = NotParsed
    /\ builder = DefaultBuilder
    /\ built = NotParsed
    /\ identifier = NotParsed
    /\ nodes = <<>>
    /\ indexes = << >>
    /\ graphNodes = <<>>
    /\ edges = <<>>
    /\ i = 0
    /\ root = <<>>
    /\ rootIndex = 0
    /\ stack = <<>>
    /\ discovered = {}
    /\ visited = <<>>
    /\ index = 0
    /\ currentIndex = 0
    /\ pathElements = <<>>
    /\ dirs = {}
    /\ files = {}
    /\ writes = <<>>
    /\ err = NoError

IdentifierFrame ==
    UNCHANGED << mainVars, graphVars, rootIndex, bfsVars, chainVars, fsVars,
                 again, reparsed, builder, built, err >>

(* Identifier::molecular(n) or Identifier::morphological(n) *)
NewIdentifier ==
    /\ pc = "identifier"
    /\ \E n \in IdentifierNumbers, made \in { "molecular", "morphological" } :
          LET result == IF made = "molecular" THEN molecular(n) ELSE morphological(n)
          IN  IF result = <<>>
              THEN /\ pc' = "no identifier"
                   /\ UNCHANGED identifier
              ELSE /\ pc' = "display"
                   /\ identifier' = result[1]
    /\ UNCHANGED << input, parsed >>
    /\ IdentifierFrame

(* identifier.to_string() *)
DisplayIdentifier ==
    /\ pc = "display"
    /\ input' = fmt(identifier)
    /\ pc' = "text"
    /\ UNCHANGED << identifier, parsed >>
    /\ IdentifierFrame

(* A string is given to be parsed. *)
GivenText ==
    /\ pc = "identifier"
    /\ input' \in IdentifierTexts
    /\ pc' = "text"
    /\ UNCHANGED << identifier, parsed >>
    /\ IdentifierFrame

(* input.parse::<Identifier>() *)
ParseIdentifier ==
    /\ pc = "text"
    /\ parsed' = identifier_from_str(input)
    /\ pc' = "identified"
    /\ UNCHANGED << identifier, input >>
    /\ IdentifierFrame

NextIdentifier ==
    \/ NewIdentifier
    \/ DisplayIdentifier
    \/ GivenText
    \/ ParseIdentifier

SpecIdentifier == InitIdentifier /\ [][NextIdentifier]_vars

(* ---------------------------------------------------------------------- *)
(* Name::from_str called on a string                                       *)
(* ---------------------------------------------------------------------- *)

(* Every way of writing a word in upper and lower case letters. *)
RECURSIVE Casings(_)
Casings(w) ==
    IF w = <<>> THEN { <<>> }
    ELSE { << c >> \o r : c \in { Head(w), ToAsciiUppercase(Head(w)) },
                          r \in Casings(Tail(w)) }

(* The pieces single tokens are put together from. *)
Pieces ==
    { <<"A", "z">>,
      <<"a", "z">>,
      <<"A", "Z">>,
      <<"/", "A", "z">>,
      <<"/", "a", "z">>,
      <<"2">>,
      <<"N", "o", "n", "-">>,
      <<"h", "o", "d", "g", "k", "i", "n">>,
      <<"H", "o", "d", "g", "k", "i", "n">>,
      <<"I", "a", "m", "p", "2", "1">>,
      <<"i", "A", "M", "P", "2", "1">>,
      <<"U+00E8">> }

RECURSIVE Concats(_, _)
Concats(S, n) ==
    IF n = 0 THEN { <<>> }
    ELSE Concats(S, n - 1) \cup { q \o x : q \in Concats(S, n - 1), x \in S }

(* Strings of one token: the allow-list words in every casing, and up to   *)
(* MaxPieces pieces in a row.                                              *)
TokenInputs ==
    UNION { Casings(w) : w \in LOWERCASE_WORDS } \cup Concats(Pieces, MaxPieces)

(* The tokens and the separators longer strings are put together from. *)
PhraseTokens ==
    { <<"f", "o", "o">>,
      <<"A", "n", "d">>,
      <<"B", "A", "Z">>,
      <<"B", "U+00E8", "a", "r">> }

Separators == { <<" ">>, <<",", " ">>, <<"\t">>, <<"U+00A0">> }

RECURSIVE Join(_, _)
Join(tokens, sep) ==
    IF tokens = <<>> THEN <<>>
    ELSE IF Len(tokens) = 1 THEN Head(tokens)
    ELSE Head(tokens) \o sep \o Join(Tail(tokens), sep)

PhraseInputs ==
    { Join(tokens, sep) : tokens \in SeqsUpTo(PhraseTokens, MaxTokens), sep \in Separators }

(* The strings the tests and the comments of name.rs and directory.rs use. *)
ExampleInputs ==
    { <<"F", "o", "o", " ", "B", "a", "r", " ", "B", "A", "Z">>,
      <<"f", "o", "o", ",", " ", "b", "a", "R", ",", " ", "a", "n", "d", " ", "b", "A", "Z">>,
      <<"F", "o", "o", " ", "B", "U+00E8", "a", "r", " ", "B", "A", "Z">>,
      <<"E", "p", "s", "t", "e", "i", "n", "-", "b", "a", "r", "r">>,
      <<"R", "o", "s", "a", "i", "-", "d", "o", "r", "f", "m", "a", "n">>,
      <<"S", "e", "r", "t", "o", "l", "i", "-", "l", "e", "y", "d", "i", "g">>,
      <<"B", "-", "c", "e", "l", "l", "/", "T", "-", "c", "e", "l", "l">>,
      <<"K", "M", "T", "2", "A">>,
      <<"l", "i", "k", "e">>,
      <<"L", "i", "k", "e">> }

Inputs == TokenInputs \cup PhraseInputs \cup ExampleInputs

InitName ==
    /\ pc = "parse"
    /\ input \in Inputs
    /\ parsed = NotParsed
    /\ again = <<>>
    /\ reparsed = NotParsed
    /\ builder = DefaultBuilder
    /\ built = NotParsed
    /\ identifier = NotParsed
    /\ nodes = <<>>
    /\ indexes = << >>
    /\ graphNodes = <<>>
    /\ edges = <<>>
    /\ i = 0
    /\ root = <<>>
    /\ rootIndex = 0
    /\ stack = <<>>
    /\ discovered = {}
    /\ visited = <<>>
    /\ index = 0
    /\ currentIndex = 0
    /\ pathElements = <<>>
    /\ dirs = {}
    /\ files = {}
    /\ writes = <<>>
    /\ err = NoError

(* input.parse::<Name>(): the replacement table is visited in some order. *)
Parse ==
    /\ pc = "parse"
    /\ \E order \in ReplacementOrders : parsed' = from_str(input, order)
    /\ pc' = "parsed"
    /\ UNCHANGED << input, again, reparsed >>
    /\ UNCHANGED << mainVars, graphVars, rootIndex, bfsVars, chainVars, fsVars, otherVars, err >>

(* A variant that writes the name without its commas and semicolons. *)
DisplayStripped(name) == StripPunctuation(name.inner)

(* impl Display for Name: write!(f, "{}", self.inner) *)
Display(name) == name.inner

(* name.to_string(): the accepted name is written out, to be parsed again. *)
NameToString ==
    /\ pc = "parsed"
    /\ parsed.kind = "Ok"
    /\ again' = Display(parsed)
    /\ pc' = "reparse"
    /\ UNCHANGED << input, parsed, reparsed >>
    /\ UNCHANGED << mainVars, graphVars, rootIndex, bfsVars, chainVars, fsVars, otherVars, err >>

(* The expected word of the finding about a token, or the token itself. *)
ExpectedWord(findings, token) ==
    IF \E j \in 1..Len(findings) : findings[j].found = token
    THEN findings[CHOOSE j \in 1..Len(findings) : findings[j].found = token].expected
    ELSE token

(* The caller of from_str corrects a rejected name: every word of it that  *)
(* a finding names is replaced by the finding's expected word.             *)
Correct ==
    /\ pc = "parsed"
    /\ parsed.kind = "IncorrectlyCasedWords"
    /\ again' = Join([k \in 1..Len(Tokens(input)) |->
                        ExpectedWord(parsed.words, Tokens(input)[k])], << " " >>)
    /\ pc' = "reparse"
    /\ UNCHANGED << input, parsed, reparsed >>
    /\ UNCHANGED << mainVars, graphVars, rootIndex, bfsVars, chainVars, fsVars, otherVars, err >>

(* again.parse::<Name>() *)
Reparse ==
    /\ pc = "reparse"
    /\ \E order \in ReplacementOrders : reparsed' = from_str(again, order)
    /\ pc' = "reparsed"
    /\ UNCHANGED << input, parsed, again >>
    /\ UNCHANGED << mainVars, graphVars, rootIndex, bfsVars, chainVars, fsVars, otherVars, err >>

NextName ==
    \/ Parse
    \/ NameToString
    \/ Correct
    \/ Reparse

SpecName == InitName /\ [][NextName]_vars

(* ---------------------------------------------------------------------- *)
(* Properties of graph construction                                        *)
(* ---------------------------------------------------------------------- *)

Min(S) == CHOOSE x \in S : \A y \in S : x <= y

(* main has handed a graph to scaffold_from_graph. *)
Constructed == rootIndex # 0

ReadErrors == { "Open", "Deserialize" }

(* The rows have all been read, and construction has failed or succeeded. *)
BuildOver == pc \notin { "read", "index", "link" } /\ err.kind \notin ReadErrors

NodeIndexes == 1..Len(graphNodes)

InEdges(n) == { k \in 1..Len(edges) : edges[k][2] = n }

DistinctNames(rows) ==
    \A a, b \in 1..Len(rows) : a # b => rows[a].name # rows[b].name

RootRows(rows) == { k \in 1..Len(rows) : rows[k].parent = Empty }

(* The rows whose non-empty parent is the name of no row. *)
UnresolvedRows(rows) ==
    { k \in 1..Len(rows) :
        /\ rows[k].parent # Empty
        /\ \A j \in 1..Len(rows) : rows[j].name # rows[k].parent }

RepeatedRows(rows) ==
    { k \in 1..Len(rows) : \E j \in 1..(k - 1) : rows[j].name = rows[k].name }

RECURSIVE ReachableFrom(_)
ReachableFrom(S) ==
    LET T == S \cup { edges[k][2] : k \in { j \in 1..Len(edges) : edges[j][1] \in S } }
    IN  IF T = S THEN S ELSE ReachableFrom(T)

(* C1: whenever construction succeeds, every row is a node, the node names *)
(* are pairwise distinct, exactly one node (the root) has an empty parent, *)
(* the root has no incoming edge, and every other node has exactly one     *)
(* incoming edge, which comes from the node named by its parent field.     *)
C1_WellFormedGraph ==
    Constructed =>
        /\ graphNodes = nodes
        /\ DistinctNames(graphNodes)
        /\ { n \in NodeIndexes : graphNodes[n].parent = Empty } = { rootIndex }
        /\ InEdges(rootIndex) = {}
        /\ \A n \in NodeIndexes \ { rootIndex } :
              /\ Cardinality(InEdges(n)) = 1
              /\ \A k \in InEdges(n) :
                    graphNodes[edges[k][1]].name = graphNodes[n].parent

C1_Witness ==
    /\ Constructed
    /\ Len(graphNodes) = 3
    /\ \E k \in 1..Len(edges) : edges[k][1] # rootIndex

(* C2: every graph of a successful construction is a tree rooted at the    *)
(* root: no node is its own parent, and every node is reachable from the   *)
(* root along the edges.                                                   *)
C2_AcyclicTree ==
    Constructed =>
        /\ \A k \in 1..Len(edges) : edges[k][1] # edges[k][2]
        /\ ReachableFrom({ rootIndex }) = NodeIndexes

(* C3: when the run ends well, exactly one file has been resolved and      *)
(* written for every node, that is for every row of the input.             *)
C3_EveryRowResolved ==
    pc = "done" =>
        \A n \in 1..Len(nodes) :
            Cardinality({ k \in 1..Len(writes) : writes[k][1] = n }) = 1

(* C4: an input with a repeated name fails with DuplicateNode naming the   *)
(* first repeated name, whatever its parents and roots are; and until      *)
(* every name is indexed no parent has been looked at (no root recorded,   *)
(* no edge added).                                                         *)
C4_DuplicateFirst ==
    /\ pc \in { "read", "index" } => root = <<>> /\ edges = <<>>
    /\ (BuildOver /\ ~DistinctNames(nodes)) =>
          /\ pc = "failed"
          /\ err = Error("DuplicateNode", nodes[Min(RepeatedRows(nodes))].name, Empty)

C4_Witness ==
    /\ pc = "failed"
    /\ err.kind = "DuplicateNode"
    /\ RootRows(nodes) = {}
    /\ UnresolvedRows(nodes) # {}
    /\ Min(RepeatedRows(nodes)) = 3

FirstRoot(rows) == Min(RootRows(rows))
SecondRoot(rows) == Min(RootRows(rows) \ { FirstRoot(rows) })
FirstUnresolved(rows) == Min(UnresolvedRows(rows))

(* The error main reports for the first row whose parent is no row's name. *)
FirstMissingParent(rows) ==
    Error("MissingParent", rows[FirstUnresolved(rows)].parent, Empty)

(* C5, as stated: an input with distinct names and no row with an empty    *)
(* parent fails with NoRootFound.                                          *)
C5_NoRootFound ==
    (BuildOver /\ DistinctNames(nodes) /\ RootRows(nodes) = {}) =>
        /\ pc = "failed"
        /\ err = Error("NoRootFound", Empty, Empty)

(* C5, amended: an input with distinct names and no row with an empty      *)
(* parent fails with NoRootFound when every parent is the name of a row    *)
(* (the empty input included), and otherwise with MissingParent naming the *)
(* parent of the first row whose parent is no row's name.                  *)
C5_NoRootFoundUnlessMissingParent ==
    (BuildOver /\ DistinctNames(nodes) /\ RootRows(nodes) = {}) =>
        /\ pc = "failed"
        /\ err = IF UnresolvedRows(nodes) = {}
                 THEN Error("NoRootFound", Empty, Empty)
                 ELSE FirstMissingParent(nodes)

C5_Witness ==
    /\ pc = "failed"
    /\ err.kind = "NoRootFound"
    /\ DistinctNames(nodes)
    /\ Len(nodes) = 3
    /\ Len(edges) = 3

(* C6, as stated: an input with distinct names and two or more rows with   *)
(* an empty parent fails with MultipleRoots(first, second), the first two  *)
(* such rows in input order.                                               *)
C6_MultipleRoots ==
    (BuildOver /\ DistinctNames(nodes) /\ Cardinality(RootRows(nodes)) >= 2) =>
        /\ pc = "failed"
        /\ err = Error("MultipleRoots", nodes[FirstRoot(nodes)].name,
                       nodes[SecondRoot(nodes)].name)

(* C6, amended: such an input fails with MultipleRoots(first, second) when *)
(* no row before the second empty-parent row has a parent that is no row's *)
(* name, and otherwise with MissingParent naming the parent of the first   *)
(* such row.                                                               *)
C6_MultipleRootsUnlessMissingParent ==
    (BuildOver /\ DistinctNames(nodes) /\ Cardinality(RootRows(nodes)) >= 2) =>
        /\ pc = "failed"
        /\ err = IF \E k \in UnresolvedRows(nodes) : k < SecondRoot(nodes)
                 THEN FirstMissingParent(nodes)
                 ELSE Error("MultipleRoots", nodes[FirstRoot(nodes)].name,
                            nodes[SecondRoot(nodes)].name)

C6_Witness ==
    /\ pc = "failed"
    /\ err.kind = "MultipleRoots"
    /\ DistinctNames(nodes)
    /\ FirstRoot(nodes) = 1
    /\ SecondRoot(nodes) = 3
    /\ Len(edges) = 1

(* C7: an input with distinct names and exactly one row with an empty      *)
(* parent fails with MissingParent naming the parent of the first row      *)
(* whose parent is no row's name, and succeeds when there is no such row.  *)
C7_MissingParentOrSuccess ==
    (BuildOver /\ DistinctNames(nodes) /\ Cardinality(RootRows(nodes)) = 1) =>
        IF UnresolvedRows(nodes) # {}
        THEN pc = "failed" /\ err = FirstMissingParent(nodes)
        ELSE Constructed /\ err.kind \in { "None", "Io" }

C7_Witness ==
    /\ pc = "failed"
    /\ err.kind = "MissingParent"
    /\ DistinctNames(nodes)
    /\ Cardinality(RootRows(nodes)) = 1
    /\ FirstUnresolved(nodes) = 3
    /\ Len(edges) = 1

ConstructionErrors ==
    { "DuplicateNode", "MultipleRoots", "NoRootFound", "MissingParent" }

ResolutionErrors == { "MultipleParents", "DisconnectedRoot" }

NothingWritten == dirs = {} /\ files = {} /\ writes = <<>>

(* C8: when construction fails, no graph has been handed to path           *)
(* resolution and nothing has been written; more, nothing is walked or     *)
(* written before the graph is handed over.                                *)
C8_AllOrNothing ==
    /\ (pc = "failed" /\ err.kind \in ConstructionErrors) => ~Constructed
    /\ ~Constructed =>
          /\ NothingWritten
          /\ stack = <<>> /\ discovered = {} /\ visited = <<>>

C8_Witness ==
    /\ pc = "failed"
    /\ err.kind = "MissingParent"
    /\ root # <<>>
    /\ Len(edges) >= 1

(* C9: when scaffold_from_graph fails with a resolution error, nothing has *)
(* been written in that run.                                               *)
C9_NoOutputOnResolutionError ==
    (pc = "failed" /\ err.kind \in ResolutionErrors) => NothingWritten

(* C10: on the graph of a successful construction path resolution raises   *)
(* neither MultipleParents nor DisconnectedRoot: every node on an ancestor *)
(* chain has at most one incoming edge and every chain ends at the root.   *)
C10_NoResolutionError ==
    /\ ~(pc = "failed" /\ err.kind \in ResolutionErrors)
    /\ pc = "chain" => Len(Incoming(edges, currentIndex)) <= 1
    /\ pc = "write" => currentIndex = rootIndex

C10_Witness ==
    /\ pc = "write"
    /\ Len(pathElements) = 2
    /\ Len(writes) = 2

(* The names of the ancestors of the row called `name`, read off the       *)
(* parent columns of the rows: the root first, the parent last.            *)
RowCalled(name) == nodes[CHOOSE k \in 1..Len(nodes) : nodes[k].name = name]

RECURSIVE AncestorNames(_, _)
AncestorNames(name, fuel) ==
    IF fuel = 0 \/ RowCalled(name).parent = Empty THEN <<>>
    ELSE Append(AncestorNames(RowCalled(name).parent, fuel - 1), RowCalled(name).parent)

PathOfChain(name) ==
    LET chain == AncestorNames(name, Len(nodes))
    IN  [k \in 1..(Len(chain) + 1) |->
            IF k <= Len(chain) THEN RenderSegment(chain[k])
            ELSE RenderSegment(name) \o YmlSuffix]

(* C11: the path of a visited node at depth d has d + 1 segments: the      *)
(* renderings of its ancestors, the root first and the parent last, then   *)
(* the rendering of its own name with the extension '.yml'.  This holds    *)
(* for the path about to be written and for every file written so far.     *)
C11_PathIsAncestorChain ==
    /\ pc = "write" =>
          /\ pathElements = AncestorNames(NodeName(index), Len(nodes))
          /\ File = PathOfChain(NodeName(index))
    /\ nodes # <<>> =>
          \A k \in 1..Len(writes) : writes[k][2] = PathOfChain(NodeName(writes[k][1]))

C11_Witness ==
    /\ Len(writes) = 3
    /\ Len(writes[1][2]) = 1
    /\ Len(writes[2][2]) = 2
    /\ Len(writes[3][2]) = 3

CharsOf(s) == { s[k] : k \in 1..Len(s) }

(* The chain of the node being written, its own name with '.yml' last. *)
ChainElements == Append(pathElements, NodeName(index) \o YmlSuffix)

(* C12: every path handed to the writer lies inside the output directory   *)
(* and has one component per chain element: no rendered segment holds a    *)
(* '/', is absolute or is a '..' component.                                *)
C12_SafePaths ==
    pc = "write" =>
       /\ Len(File) = Len(ChainElements)
       /\ \A k \in 1..Len(ChainElements) :
             /\ "/" \notin CharsOf(RenderSegment(ChainElements[k]))
             /\ RenderSegment(ChainElements[k]) # ParentComponent
             /\ File[k] = RenderSegment(ChainElements[k])

(* C13: no segment of a resolved path holds a ',' or a ';': neither a      *)
(* rendered element of the chain about to be written nor a component of a  *)
(* file or directory created so far.                                       *)
C13_NoStrippedPunctuation ==
    /\ pc = "write" =>
          \A k \in 1..Len(ChainElements) :
             CharsOf(RenderSegment(ChainElements[k])) \cap { ",", ";" } = {}
    /\ \A path \in files \cup dirs :
          \A k \in 1..Len(path) : CharsOf(path[k]) \cap { ",", ";" } = {}

C13_Witness ==
    /\ Len(writes) = 2
    /\ "," \in CharsOf(NodeName(writes[1][1]))
    /\ ";" \in CharsOf(NodeName(writes[2][1]))

(* C14: a rendered segment is the lowercased whitespace-separated words of *)
(* the element joined by single hyphens; no hyphen is put inside a word.   *)
C14_KebabOfWhitespaceWords ==
    pc = "write" =>
       \A k \in 1..Len(ChainElements) :
          RenderSegment(ChainElements[k])
             = JoinKebab([j \in 1..Len(Tokens(ChainElements[k])) |->
                            to_lowercase(Tokens(ChainElements[k])[j])])

(* The words the specification lists as expected in lower case. *)
AllowList ==
    { <<"a", "n", "d">>,
      <<"l", "i", "k", "e">>,
      <<"t", "h", "e">>,
      <<"o", "f">>,
      <<"o", "r">>,
      <<"w", "i", "t", "h">> }

(* The substitutions the specification lists, in the order it lists them. *)
SubstitutionTable ==
    << << <<"h", "o", "d", "g", "k", "i", "n">>,
          <<"H", "o", "d", "g", "k", "i", "n">> >>,
       << <<"b", "a", "r", "r">>, <<"B", "a", "r", "r">> >>,
       << <<"d", "o", "r", "f", "m", "a", "n">>,
          <<"D", "o", "r", "f", "m", "a", "n">> >>,
       << <<"l", "e", "y", "d", "i", "g">>,
          <<"L", "e", "y", "d", "i", "g">> >>,
       << <<"I", "a", "m", "p", "2", "1">>,
          <<"i", "A", "M", "P", "2", "1">> >> >>

(* The title-case form as the specification words it: the first character  *)
(* and every character directly after a '/' in upper case, every other one *)
(* in lower case.                                                          *)
RECURSIVE Capitalised(_, _)
Capitalised(s, upper) ==
    IF s = <<>> THEN <<>>
    ELSE << IF upper THEN ToAsciiUppercase(Head(s)) ELSE ToAsciiLowercase(Head(s)) >>
         \o Capitalised(Tail(s), Head(s) = "/")

ExpectedTitle(t) == ApplyReplacements(Capitalised(t, TRUE), SubstitutionTable)

InAllowList(t) == to_lowercase(t) \in AllowList

AllUpper(t) == to_uppercase(t) = t

HasNonAscii(t) == \E k \in 1..Len(t) : t[k] \in { "U+00E8", "U+00A0" }

(* A string has been classified and every token of it is ASCII. *)
ParsedAscii ==
    /\ pc = "parsed"
    /\ \A k \in 1..Len(Tokens(input)) : ~HasNonAscii(Tokens(input)[k])

Findings(t) ==
    IF parsed.kind = "IncorrectlyCasedWords"
    THEN { parsed.words[j] : j \in { j \in 1..Len(parsed.words) : parsed.words[j].found = t } }
    ELSE {}

(* Token k is accepted with the given tag: it is so tagged when the string *)
(* is accepted, no finding names it, and alone it makes the string         *)
(* accepted.                                                               *)
TokenTagged(k, case) ==
    /\ parsed.kind \in { "Ok", "IncorrectlyCasedWords" }
    /\ parsed.kind = "Ok" =>
          parsed.words[k] = [case |-> case, word |-> Tokens(input)[k]]
    /\ Findings(Tokens(input)[k]) = {}
    /\ Len(Tokens(input)) = 1 => parsed.kind = "Ok" /\ parsed.inner = input

(* Token k is rejected: the string fails with IncorrectlyCasedWords and    *)
(* the findings that name the token are exactly the given one.             *)
TokenRejected(k, expected, reason) ==
    /\ parsed.kind = "IncorrectlyCasedWords"
    /\ Findings(Tokens(input)[k])
          = { [ok |-> FALSE, found |-> Tokens(input)[k],
               expected |-> expected, reason |-> reason] }

(* C15: a token that is a word of the allow-list in lower case is accepted *)
(* and tagged Lower; in any other casing it is rejected with a finding     *)
(* whose expected form is the word and whose reason is that the word is in *)
(* the lowercase list.                                                     *)
C15_AllowListIsLower ==
    ParsedAscii =>
       \A k \in 1..Len(Tokens(input)) :
          LET t == Tokens(input)[k]
          IN  InAllowList(t) =>
                 IF t = to_lowercase(t)
                 THEN TokenTagged(k, "Lower")
                 ELSE TokenRejected(k, to_lowercase(t), "the word is in the lowercase list")

C15_Witness ==
    /\ pc = "parsed"
    /\ input = <<"L", "i", "k", "e">>
    /\ parsed.kind = "IncorrectlyCasedWords"
    /\ parsed.words[1].expected = <<"l", "i", "k", "e">>

(* C16 as stated: every ASCII token that equals its uppercase transform is *)
(* accepted and tagged Upper, unchanged.                                   *)
C16_UppercaseIsUpper ==
    ParsedAscii =>
       \A k \in 1..Len(Tokens(input)) :
          AllUpper(Tokens(input)[k]) => TokenTagged(k, "Upper")

(* C16, amended: every ASCII token that equals its uppercase transform and *)
(* whose lowercase form is not in the allow-list is accepted and tagged    *)
(* Upper, unchanged; an uppercase spelling of an allow-list word is        *)
(* rejected with the lowercase word as the expected form.                  *)
C16_UppercaseIsUpperUnlessAllowList ==
    ParsedAscii =>
       \A k \in 1..Len(Tokens(input)) :
          LET t == Tokens(input)[k]
          IN  AllUpper(t) =>
                 IF InAllowList(t)
                 THEN TokenRejected(k, to_lowercase(t), "the word is in the lowercase list")
                 ELSE TokenTagged(k, "Upper")

C16_Witness ==
    /\ pc = "parsed"
    /\ input = <<"A", "Z", "2">>
    /\ parsed.kind = "Ok"
    /\ parsed = NameOk(input, << [case |-> "Upper", word |-> input] >>)

NotTitleReason == "the word is neither in the lowercase list nor is fully uppercase"

(* C17: an ASCII token that is neither in the allow-list nor all uppercase *)
(* is accepted and tagged Title exactly if it equals its title-case form   *)
(* with the substitutions applied; otherwise it is rejected with that form *)
(* as the expected one.  'Foo Bar BAZ' is [Title Foo, Title Bar, Upper     *)
(* BAZ].                                                                   *)
C17_TitleIffEqualsTransform ==
    /\ ParsedAscii =>
          \A k \in 1..Len(Tokens(input)) :
             LET t == Tokens(input)[k]
             IN  ~InAllowList(t) /\ ~AllUpper(t) =>
                    IF t = ExpectedTitle(t)
                    THEN TokenTagged(k, "Title")
                    ELSE TokenRejected(k, ExpectedTitle(t), NotTitleReason)
    /\ pc = "parsed" /\ input = <<"F", "o", "o", " ", "B", "a", "r", " ", "B", "A", "Z">> =>
          /\ parsed.kind = "Ok"
          /\ parsed = NameOk(input, << [case |-> "Title", word |-> <<"F", "o", "o">>],
                                      [case |-> "Title", word |-> <<"B", "a", "r">>],
                                      [case |-> "Upper", word |-> <<"B", "A", "Z">>] >>)

C17_Witness ==
    /\ pc = "parsed"
    /\ input = <<"A", "z", "/", "A", "z">>
    /\ parsed.kind = "Ok"
    /\ parsed = NameOk(input, << [case |-> "Title", word |-> input] >>)

(* The title-cased form of the token holds one of the irregular terms. *)
RECURSIVE Contains(_, _)
Contains(s, term) ==
    /\ s # <<>>
    /\ \/ StartsWith(s, term)
       \/ Contains(Tail(s), term)

HoldsIrregularTerm(t) ==
    \E j \in 1..Len(SubstitutionTable) : Contains(Capitalised(t, TRUE), SubstitutionTable[j][1])

(* The string is the one token `found`, rejected with `expected`. *)
RejectedExpecting(found, expected) ==
    pc = "parsed" /\ input = found =>
       /\ parsed.kind = "IncorrectlyCasedWords"
       /\ parsed.words = << [ok |-> FALSE, found |-> found,
                             expected |-> expected, reason |-> NotTitleReason] >>

(* C18: the substitutions are applied to the title-cased form.  'Iamp21',  *)
(* 'Non-hodgkin', 'Epstein-barr', 'Rosai-dorfman' and 'Sertoli-leydig' are *)
(* rejected with 'iAMP21', 'Non-Hodgkin', 'Epstein-Barr', 'Rosai-Dorfman'  *)
(* and 'Sertoli-Leydig' expected; 'iAMP21' is accepted; a rejected token   *)
(* whose title-cased form holds none of the terms has the plain title-case *)
(* form as its expected form.                                              *)
C18_SubstitutionTable ==
    /\ RejectedExpecting(<<"I", "a", "m", "p", "2", "1">>, <<"i", "A", "M", "P", "2", "1">>)
    /\ RejectedExpecting(<<"N", "o", "n", "-", "h", "o", "d", "g", "k", "i", "n">>,
                         <<"N", "o", "n", "-", "H", "o", "d", "g", "k", "i", "n">>)
    /\ RejectedExpecting(<<"E", "p", "s", "t", "e", "i", "n", "-", "b", "a", "r", "r">>,
                         <<"E", "p", "s", "t", "e", "i", "n", "-", "B", "a", "r", "r">>)
    /\ RejectedExpecting(<<"R", "o", "s", "a", "i", "-", "d", "o", "r", "f", "m", "a", "n">>,
                         <<"R", "o", "s", "a", "i", "-", "D", "o", "r", "f", "m", "a", "n">>)
    /\ RejectedExpecting(<<"S", "e", "r", "t", "o", "l", "i", "-", "l", "e", "y", "d", "i", "g">>,
                         <<"S", "e", "r", "t", "o", "l", "i", "-", "L", "e", "y", "d", "i", "g">>)
    /\ pc = "parsed" /\ input = <<"i", "A", "M", "P", "2", "1">> =>
          /\ parsed.kind = "Ok"
          /\ parsed = NameOk(input, << [case |-> "Title", word |-> input] >>)
    /\ ParsedAscii =>
          \A k \in 1..Len(Tokens(input)) :
             LET t == Tokens(input)[k]
             IN  ~InAllowList(t) /\ ~AllUpper(t) /\ ~HoldsIrregularTerm(t) =>
                    IF t = Capitalised(t, TRUE)
                    THEN TokenTagged(k, "Title")
                    ELSE TokenRejected(k, Capitalised(t, TRUE), NotTitleReason)

C18_Witness ==
    /\ pc = "parsed"
    /\ input = <<"I", "a", "m", "p", "2", "1">>
    /\ parsed.kind = "IncorrectlyCasedWords"
    /\ parsed.words[1].expected = <<"i", "A", "M", "P", "2", "1">>

(* A token that breaks the casing rules of the specification. *)
BadlyCased(t) ==
    IF InAllowList(t) THEN t # to_lowercase(t)
    ELSE ~AllUpper(t) /\ t # ExpectedTitle(t)

(* C19: when every token is ASCII and at least one is badly cased, the     *)
(* string fails with one IncorrectlyCasedWords error whose findings name   *)
(* the badly cased tokens, each once and in token order, and no other      *)
(* token.  'foo, baR, and bAZ' gives findings for foo, baR and bAZ.        *)
C19_EveryBadlyCasedToken ==
    /\ ParsedAscii /\ SelectSeq(Tokens(input), BadlyCased) # <<>> =>
          /\ parsed.kind = "IncorrectlyCasedWords"
          /\ [j \in 1..Len(parsed.words) |-> parsed.words[j].found]
                = SelectSeq(Tokens(input), BadlyCased)
    /\ pc = "parsed" /\ input = <<"f", "o", "o", ",", " ", "b", "a", "R", ",", " ", "a", "n", "d", " ", "b", "A", "Z">> =>
          /\ parsed.kind = "IncorrectlyCasedWords"
          /\ [j \in 1..Len(parsed.words) |-> parsed.words[j].found]
                = << <<"f", "o", "o">>, <<"b", "a", "R">>, <<"b", "A", "Z">> >>

C19_Witness ==
    /\ pc = "parsed"
    /\ Len(Tokens(input)) = 3
    /\ parsed.kind = "IncorrectlyCasedWords"
    /\ [j \in 1..Len(parsed.words) |-> parsed.words[j].found]
          = << <<"f", "o", "o">>, <<"A", "n", "d">> >>

(* C20: when at least one token is not ASCII, the string fails with        *)
(* NonAsciiWords listing the tokens that are not ASCII, each once and in   *)
(* token order, and no other token.  'Foo Bèar BAZ' gives ['Bèar'].        *)
C20_EveryNonAsciiToken ==
    /\ pc = "parsed" /\ SelectSeq(Tokens(input), HasNonAscii) # <<>> =>
          /\ parsed.kind = "NonAsciiWords"
          /\ parsed.words = SelectSeq(Tokens(input), HasNonAscii)
    /\ pc = "parsed" /\ input = <<"F", "o", "o", " ", "B", "U+00E8", "a", "r", " ", "B", "A", "Z">> =>
          /\ parsed.kind = "NonAsciiWords"
          /\ parsed.words = << <<"B", "U+00E8", "a", "r">> >>

C20_Witness ==
    /\ pc = "parsed"
    /\ Len(Tokens(input)) = 3
    /\ parsed.kind = "NonAsciiWords"
    /\ parsed.words = << <<"B", "U+00E8", "a", "r">>, <<"B", "U+00E8", "a", "r">> >>

(* C21: an accepted name keeps the string it was parsed from, unstripped;  *)
(* parsing the string it displays is accepted again and gives a name equal *)
(* to it: the same string and the same tagged words.                       *)
C21_RoundTrip ==
    /\ pc \in { "parsed", "reparse", "reparsed" } /\ parsed.kind = "Ok" =>
          parsed.inner = input
    /\ pc \in { "reparse", "reparsed" } /\ parsed.kind = "Ok" =>
          again = input
    /\ pc = "reparsed" /\ parsed.kind = "Ok" =>
          /\ reparsed.kind = "Ok"
          /\ reparsed.inner = parsed.inner
          /\ reparsed.words = parsed.words

C21_Witness ==
    /\ pc = "reparsed"
    /\ parsed.kind = "Ok"
    /\ "," \in CharsOf(input)
    /\ Len(parsed.words) = 2
    /\ reparsed = parsed

(* C22: try_build fails with MissingField exactly when the name or the     *)
(* parent has not been set; a builder with a name and a parent and no code *)
(* builds a node.                                                          *)
C22_CodeIsOptional ==
    pc = "built" =>
       /\ built.kind = "MissingField" <=> (builder.name = <<>> \/ builder.parent = <<>>)
       /\ (builder.name # <<>> /\ builder.parent # <<>>) => built.kind = "Ok"

(* A URL of an issue of the stjudecloud/ecc repository on GitHub. *)
IsIssueUrl(url) ==
    LET issues == << "h", "t", "t", "p", "s", ":", "/", "/", "g", "i", "t", "h", "u", "b",
                     ".", "c", "o", "m", "/", "s", "t", "j", "u", "d", "e", "c", "l", "o",
                     "u", "d", "/", "e", "c", "c", "/", "i", "s", "s", "u", "e", "s", "/" >>
    IN  /\ StartsWith(url, issues)
        /\ Len(url) > Len(issues)
        /\ \A k \in (Len(issues) + 1)..Len(url) : url[k] \in DigitChars

(* C23: every accepted link is the URL of an issue of stjudecloud/ecc:     *)
(* https://github.com/stjudecloud/ecc/issues/ and one or more digits; a    *)
(* string that is not a URL fails with ParseError::Url, any other URL with *)
(* ParseError::Invalid.                                                    *)
C23_OnlyIssueLinks ==
    pc = "linked" =>
       /\ parsed.kind = "Ok" => IsIssueUrl(parsed.url)
       /\ ParseUrl(input) = <<>> => parsed = LinkUrlError(input)
       /\ (ParseUrl(input) # <<>> /\ ~IsIssueUrl(ParseUrl(input)[1])) =>
             parsed = LinkInvalid(input)

(* The depth of a written node: the number of its ancestors by the rows. *)
DepthOf(n) == Len(AncestorNames(NodeName(n), Len(nodes)))

(* C24: the files are written in breadth-first order from the root: the    *)
(* root's file first, the depths never decreasing, and the file of the     *)
(* parent of every written node but the root earlier than the node's.      *)
C24_BreadthFirstWrites ==
    /\ writes # <<>> => NodeName(writes[1][1]) = root[1]
    /\ \A j, k \in 1..Len(writes) :
          j < k => DepthOf(writes[j][1]) <= DepthOf(writes[k][1])
    /\ \A k \in 1..Len(writes) :
          RowCalled(NodeName(writes[k][1])).parent # Empty =>
             \E j \in 1..(k - 1) :
                NodeName(writes[j][1]) = RowCalled(NodeName(writes[k][1])).parent

C24_Witness ==
    /\ Len(writes) = 4
    /\ DepthOf(writes[2][1]) = 1
    /\ DepthOf(writes[3][1]) = 1
    /\ DepthOf(writes[4][1]) = 2
    /\ RowCalled(NodeName(writes[4][1])).parent = NodeName(writes[3][1])

(* Rows that name each other as parent, or a row that names itself: a      *)
(* cycle of rows.                                                          *)
HasRowCycle ==
    \E j, k \in 1..Len(nodes) :
       /\ nodes[j].parent = nodes[k].name
       /\ nodes[k].parent = nodes[j].name

(* The number of steps path resolution can still take: for every node not *)
(* yet visited, one step that takes it from the queue, at most as many     *)
(* turns of the ancestor loop as the graph has nodes, the turn that finds  *)
(* the root, and the write; and one last step that finds the queue empty.  *)
StepsLeft ==
    LET n == Len(graphNodes)
        turns == (n - Len(visited)) * (n + 3) + 1
    IN  CASE pc = "bfs" -> turns
          [] pc = "chain" -> turns + (n + 1 - Len(pathElements)) + 1
          [] pc = "write" -> turns + 1
          [] OTHER -> 0

(* What every step of path resolution does. *)
ResolutionStep ==
    pc \in { "bfs", "chain", "write" } =>
       /\ pc' # "hang"
       /\ StepsLeft' >= 0
       /\ StepsLeft' < StepsLeft
       /\ \A j, k \in 1..Len(visited') : j # k => visited'[j] # visited'[k]
       /\ Len(pathElements') < Len(graphNodes)

(* C25: on every graph main hands over, path resolution terminates: every  *)
(* step of it lowers a natural number, the traversal visits no node twice, *)
(* and the ancestor loop of a visited node takes fewer upward steps than   *)
(* the graph has nodes and never comes back to a node it has left.  This   *)
(* includes rows with a cycle that the root is not part of.                *)
C25_PathResolutionTerminates == [][ResolutionStep]_vars

(* A run over rows with a cycle that ended with every reachable node       *)
(* written and one node, on the cycle, never visited.                      *)
C25_Witness ==
    /\ pc = "done"
    /\ HasRowCycle
    /\ Len(writes) < Len(graphNodes)
    /\ pathElements # <<>>

(* C26: a string with a token that is not ASCII fails with NonAsciiWords,   *)
(* whose words are all tokens that are not ASCII, whatever the case of its  *)
(* ASCII tokens, and a string fails with IncorrectlyCasedWords only when    *)
(* every token of it is ASCII.                                             *)
C26_NonAsciiFirst ==
    /\ pc = "parsed" /\ (\E k \in 1..Len(Tokens(input)) : HasNonAscii(Tokens(input)[k])) =>
          /\ parsed.kind = "NonAsciiWords"
          /\ \A j \in 1..Len(parsed.words) : HasNonAscii(parsed.words[j])
    /\ pc = "parsed" /\ parsed.kind = "IncorrectlyCasedWords" =>
          \A k \in 1..Len(Tokens(input)) : ~HasNonAscii(Tokens(input)[k])

(* A string with a badly cased ASCII token and a token that is not ASCII   *)
(* has been rejected for the latter.                                       *)
C26_Witness ==
    /\ pc = "parsed"
    /\ \E j, k \in 1..Len(Tokens(input)) :
          /\ ~HasNonAscii(Tokens(input)[j]) /\ BadlyCased(Tokens(input)[j])
          /\ HasNonAscii(Tokens(input)[k])
    /\ parsed.kind = "NonAsciiWords"

(* The rows main accepts, whatever their order. *)
Accepted(rows) ==
    /\ DistinctNames(rows)
    /\ Cardinality(RootRows(rows)) = 1
    /\ UnresolvedRows(rows) = {}

RootNames(rows) == { rows[k].name : k \in RootRows(rows) }

(* The edges the rows ask for, from parent name to child name. *)
RowEdges(rows) ==
    { << rows[k].parent, rows[k].name >> : k \in (1..Len(rows)) \ RootRows(rows) }

(* The edges of the graph, from source name to target name. *)
NamedEdges ==
    { << NodeName(edges[k][1]), NodeName(edges[k][2]) >> : k \in 1..Len(edges) }

RowOrders(n) ==
    { p \in [1..n -> 1..n] : \A a, b \in 1..n : a # b => p[a] # p[b] }

(* C27: whether construction succeeds, the root and the edges between      *)
(* named nodes depend on the rows only, not on their order: construction   *)
(* succeeds exactly on the accepted rows, with the one root row as root    *)
(* and one edge from parent to child for every other row, and every        *)
(* reordering of the rows is accepted or not as they are and asks for the  *)
(* same root and the same edges.  A child row may come before its parent's *)
(* row.                                                                    *)
C27_RowOrderIndependent ==
    BuildOver =>
       /\ Constructed <=> Accepted(nodes)
       /\ Constructed =>
             /\ root = << nodes[FirstRoot(nodes)].name >>
             /\ { NodeName(rootIndex) } = RootNames(nodes)
             /\ NamedEdges = RowEdges(nodes)
             /\ Len(edges) = Len(nodes) - 1
       /\ \A p \in RowOrders(Len(nodes)) :
             LET rows == [k \in 1..Len(nodes) |-> nodes[p[k]]]
             IN  /\ Accepted(rows) <=> Accepted(nodes)
                 /\ RootNames(rows) = RootNames(nodes)
                 /\ RowEdges(rows) = RowEdges(nodes)

(* Construction has succeeded on three rows of which the first is the      *)
(* child of the second and the second the child of the third.              *)
C27_Witness ==
    /\ Constructed
    /\ Len(nodes) = 3
    /\ nodes[1].parent = nodes[2].name
    /\ nodes[2].parent = nodes[3].name
    /\ nodes[3].parent = Empty
    /\ edges = << << 2, 1 >>, << 3, 2 >> >>

(* C28: the expected form of every finding is a word that is accepted, in  *)
(* whatever order the replacement table is visited, and a rejected name in *)
(* which every reported word is replaced by its expected form is accepted  *)
(* when it is classified again.                                            *)
C28_ExpectedFormIsAccepted ==
    /\ pc \in { "parsed", "reparse", "reparsed" } /\ parsed.kind = "IncorrectlyCasedWords" =>
          \A j \in 1..Len(parsed.words) :
             /\ parsed.words[j].expected # parsed.words[j].found
             /\ \A order \in ReplacementOrders :
                   validate_word_case(parsed.words[j].expected, order).ok
    /\ pc \in { "reparse", "reparsed" } /\ parsed.kind = "IncorrectlyCasedWords" =>
          /\ Len(Tokens(again)) = Len(Tokens(input))
          /\ \A k \in 1..Len(Tokens(input)) :
                IF BadlyCased(Tokens(input)[k])
                THEN \E j \in 1..Len(parsed.words) :
                        /\ parsed.words[j].found = Tokens(input)[k]
                        /\ parsed.words[j].expected = Tokens(again)[k]
                ELSE Tokens(again)[k] = Tokens(input)[k]
    /\ pc = "reparsed" /\ parsed.kind = "IncorrectlyCasedWords" =>
          /\ reparsed.kind = "Ok"
          /\ reparsed.inner = again

(* A name with two badly cased words of different kinds and a well cased   *)
(* one has been corrected and is accepted.                                 *)
C28_Witness ==
    /\ pc = "reparsed"
    /\ parsed.kind = "IncorrectlyCasedWords"
    /\ Len(Tokens(input)) = 3
    /\ Len(parsed.words) = 2
    /\ parsed.words[1].reason # parsed.words[2].reason
    /\ reparsed.kind = "Ok"

(* C29: the nodes written so far have pairwise different paths; so two     *)
(* nodes below the same parent whose names differ, be it only by a comma,  *)
(* a semicolon, case or spacing, have different paths.                     *)
C29_DistinctPaths ==
    \A j, k \in 1..Len(writes) :
       writes[j][1] # writes[k][1] => writes[j][2] # writes[k][2]

(* C30: an identifier of either kind made of a number n >= 1 is displayed  *)
(* as 'ECC-MOLEC-' or 'ECC-MORPH-' and n with zeros at the left up to six  *)
(* digits, and parsing what is displayed gives the identifier back.        *)
C30_IdentifierRoundTrip ==
    /\ pc \in { "text", "identified" } /\ identifier # NotParsed =>
          /\ SubSeq(input, 1, 10)
                = (IF identifier.kind = "Molecular"
                   THEN <<"E", "C", "C", "-", "M", "O", "L", "E", "C", "-">>
                   ELSE <<"E", "C", "C", "-", "M", "O", "R", "P", "H", "-">>)
          /\ Len(input) = 16 \/ (Len(input) > 16 /\ input[11] # "0")
          /\ ValueOf(SubSeq(input, 11, Len(input))) = identifier.n
    /\ pc = "identified" /\ identifier # NotParsed =>
          parsed = [kind |-> "Ok", identifier |-> identifier]

====
